---- MODULE Spec2Model ----
(***************************************************************************)
(* The flip-flop codec: encode.py turns a byte stream into a C program     *)
(* whose calls of STC/CLC routines spell the stream's bits, decode.py      *)
(* drives that program under a debugger and samples the carry flag.        *)
(*                                                                         *)
(* Modelling choices:                                                       *)
(*  - a call string f'{op}{times}()' is the pair <<op, times>>: the        *)
(*    formatting is injective on (op, times);                              *)
(*  - the random module is a deterministic generator: its state is `seed', *)
(*    drawn from a small set at start, and every draw advances it;         *)
(*  - random.sample(population, k) returns a new list and leaves its       *)
(*    argument alone (the interpreters the code was written for accept a   *)
(*    set as population);                                                  *)
(*  - Python sets of small integers are iterated in ascending order;       *)
(*  - the debuggee is the sequence of leaf instructions (STC, CLC, NOP)    *)
(*    its main() executes; the other instructions carry no breakpoint.     *)
(***************************************************************************)
EXTENDS Integers, Sequences, FiniteSets, TLC

VARIABLES
    pc,         \* the position of the run
    hist,       \* the operations performed on the Encoder so far
    input,      \* the input stream: [data, pos]
    args,       \* the parsed command lines: [noise, count, breakpoint, file]
    e,          \* the Encoder object
    seed,       \* the state of the random module
    program,    \* the C file generate() returned last
    stdout,     \* what the encoder's __main__ wrote: a sequence of C files
    r2,         \* the debugger session: [bps, trace, cf, status]
    target,     \* the process status read last (dij)
    registers,  \* the register set read last (drj)
    count,      \* decoder: bits in the in-progress byte
    byte,       \* decoder: the in-progress byte
    chunk,      \* decoder: the pending chunk
    output,     \* decoder: the output sink: [open, writes]
    log         \* the debugger commands issued so far

vars == <<pc, hist, input, args, e, seed, program, stdout, r2, target,
          registers, count, byte, chunk, output, log>>

encvars == <<hist, input, e, seed, program, stdout>>
decvars == <<r2, target, registers, count, byte, chunk, output, log>>

(***************************************************************************)
(* Bounds of the model.                                                    *)
(***************************************************************************)
MaxLen == 2        \* bytes in an input stream
MaxBytes == 2      \* largest read chunk size tried (besides -1 and 0)
MaxSeed == 1       \* seeds of the random module tried: 0..MaxSeed
MaxOps == 2        \* flush()/generate() calls after construction
MaxLevel == 10     \* largest level in a level set given to complete()
MaxAlternating == 7  \* 0x55 bytes at the head of a long input stream

\* The byte values input streams are built from: all-zero, alternating,
\* half and half (with them, runs that cross the byte boundary and runs of
\* odd length).
ByteValues == {0, 170, 15}

\* The noise percentages tried through the constructor (0 < noise < 100).
NoisePercents == {1, 50, 99}

Min(a, b) == IF a < b THEN a ELSE b

RECURSIVE SeqsUpTo(_, _)
SeqsUpTo(S, n) ==
    IF n = 0 THEN {<<>>}
    ELSE LET shorter == SeqsUpTo(S, n - 1)
         IN  shorter \cup {Append(s, x) : s \in shorter, x \in S}

RECURSIVE Pow2(_)
Pow2(n) == IF n = 0 THEN 1 ELSE 2 * Pow2(n - 1)

\* F(v), with v evaluated once, before F is entered.
Apply(F(_), v) == CHOOSE r \in {F(x) : x \in {v}} : TRUE

\* F applied n times to x: the body of a loop run n times.  The recursion
\* halves n, which keeps its depth at log n.
RECURSIVE Iterate(_, _, _)
Iterate(F(_), x, n) ==
    IF n <= 0 THEN x
    ELSE IF n = 1 THEN F(x)
    ELSE Apply(LAMBDA y : Iterate(F, y, n - n \div 2), Iterate(F, x, n \div 2))

\* for item in seq[lo..hi]: x = F(x, item)
RECURSIVE Fold(_, _, _, _, _)
Fold(F(_, _), x, seq, lo, hi) ==
    IF lo > hi THEN x
    ELSE IF lo = hi THEN F(x, seq[lo])
    ELSE Apply(LAMBDA y : Fold(F, y, seq, (lo + hi) \div 2 + 1, hi),
               Fold(F, x, seq, lo, (lo + hi) \div 2))

\* The elements of a set of integers in ascending order.
Sorted(S) ==
    [i \in 1..Cardinality(S) |->
        CHOOSE x \in S : Cardinality({y \in S : y < x}) = i - 1]

(***************************************************************************)
(* encode.py: split, explode, complete, call.                              *)
(***************************************************************************)
\* Faulty variant: both halves rounded down.
split_floor(i) == <<i \div 2, i \div 2>>

split(i) ==
    LET a == i \div 2
        b == i - a
    IN  <<a, b>>

RECURSIVE explode(_, _)
explode(s, i) ==
    LET s1 == s \cup {i}
    IN  IF i > 1
        THEN explode(explode(s1, split(i)[1]), split(i)[2])
        ELSE s1

\* Faulty variant: only the halves of the levels are added, not theirs.
complete_one_level(s) ==
    s \cup UNION {{split(i)[1], split(i)[2]} : i \in {n \in s : n > 1}}

\* Faulty variant: the set is left as it is.
complete_unchanged(s) == s

\* tree = set(); for i in s: explode(tree, i); s.update(tree)
complete(s) == s \cup UNION {explode({}, i) : i \in s}

call(op, times) == <<op, times>>

(***************************************************************************)
(* encode.py: the Encoder's run-length splitter.                           *)
(***************************************************************************)
\* Faulty variant: every bit that is not 1 counts as 0, the "no bit yet" of -1 too.
add_bits_unchecked(self, bit, times) ==
    IF bit = 1
    THEN [self EXCEPT !.stcs = @ \cup {times},
                      !.calls = Append(@, call("STC", times))]
    ELSE [self EXCEPT !.clcs = @ \cup {times},
                      !.calls = Append(@, call("CLC", times))]

add_bits(self, bit, times) ==
    IF bit = 1
    THEN [self EXCEPT !.stcs = @ \cup {times},
                      !.calls = Append(@, call("STC", times))]
    ELSE IF bit = 0
    THEN [self EXCEPT !.clcs = @ \cup {times},
                      !.calls = Append(@, call("CLC", times))]
    ELSE self

add_bit(self, bit) ==
    IF self.last = -1
    THEN [self EXCEPT !.last = bit, !.count = @ + 1]
    ELSE IF self.last = bit
    THEN [self EXCEPT !.count = @ + 1]
    ELSE [add_bits(self, self.last, self.count) EXCEPT !.last = bit, !.count = 1]

\* Faulty variant: the pending run is dropped.
flush_dropping(self) == [self EXCEPT !.last = -1, !.count = 0]

\* Faulty variant: the run is emitted but stays pending.
flush_keeping(self) == add_bits(self, self.last, self.count)

flush(self) ==
    [add_bits(self, self.last, self.count) EXCEPT !.last = -1, !.count = 0]

\* bit = (byte & (0b10000000 >> i)) >> (7 - i)
BitOf(b, i) == (b \div Pow2(7 - i)) % 2

\* for byte in bytes: for i in range(8): the bits in the order of the loops
ChunkBits(bytes) ==
    [k \in 1..(8 * Len(bytes)) |-> BitOf(bytes[(k - 1) \div 8 + 1], (k - 1) % 8)]

\* Faulty variant: the pending run is flushed at the end of every chunk.
AddChunk_flushing(self, bytes) ==
    flush(Apply(LAMBDA bits : Fold(add_bit, self, bits, 1, Len(bits)), ChunkBits(bytes)))

AddChunk(self, bytes) ==
    Apply(LAMBDA bits : Fold(add_bit, self, bits, 1, Len(bits)), ChunkBits(bytes))

\* input.read(n): up to n bytes from the position, all of them when n < 0.
read(in, n) ==
    LET left == Len(in.data) - in.pos
        k == IF n < 0 THEN left ELSE Min(n, left)
    IN  [bytes |-> SubSeq(in.data, in.pos + 1, in.pos + k),
         in |-> [in EXCEPT !.pos = in.pos + k]]

\* bytes = input.read(self.bytes); while len(bytes) > 0: ...
RECURSIVE ReadLoop(_)
ReadLoop(st) ==
    LET r == read(st.in, st.self.bytes)
    IN  IF Len(r.bytes) > 0
        THEN Apply(ReadLoop, [self |-> AddChunk(st.self, r.bytes), in |-> r.in])
        ELSE [self |-> st.self, in |-> r.in]

\* Encoder(input, bytes, noise): the object and the stream it leaves.
Encoder(in, bytes, noise) ==
    LET self0 == [bytes |-> bytes, noise |-> noise, last |-> -1, count |-> 0,
                  clcs |-> {}, stcs |-> {}, nops |-> 1..10, calls |-> <<>>]
        r == ReadLoop([self |-> self0, in |-> in])
        self1 == flush(r.self)
    IN  [self |-> [self1 EXCEPT !.clcs = complete(self1.clcs),
                                !.stcs = complete(self1.stcs),
                                !.nops = complete(self1.nops)],
         in |-> r.in]

(***************************************************************************)
(* IEEE-754 binary64 arithmetic, as far as generate() uses it:             *)
(* len(self.calls) / 100 * self.noise, then math.floor.  A positive double *)
(* is [bits, pt]: 53 binary digits, the first one 1, of which pt stand     *)
(* before the binary point (pt <= 0: 0.000ddd...).  Zero has no digits.    *)
(***************************************************************************)
Mantissa == 53

RECURSIVE ToBits(_)
ToBits(n) == IF n = 0 THEN <<>> ELSE Append(ToBits(n \div 2), n % 2)

RECURSIVE FromBits(_)
FromBits(b) ==
    IF b = <<>> THEN 0
    ELSE 2 * FromBits(SubSeq(b, 1, Len(b) - 1)) + b[Len(b)]

\* One more binary digit of rem / d (rem < d), appended to the digits.
FracStep(f) ==
    IF 2 * f.rem >= f.d
    THEN [f EXCEPT !.rem = 2 * f.rem - f.d, !.bits = Append(f.bits, 1)]
    ELSE [f EXCEPT !.rem = 2 * f.rem, !.bits = Append(f.bits, 0)]

\* The next k binary digits of rem / d, appended to acc.
FracBits(rem, d, k, acc) == Iterate(FracStep, [rem |-> rem, d |-> d, bits |-> acc], k)

\* The zero digits rem / d (0 < rem < d) starts with after the point.
RECURSIVE LeadingZeros(_, _, _)
LeadingZeros(rem, d, z) ==
    IF 2 * rem >= d THEN [rem |-> rem, z |-> z]
    ELSE LeadingZeros(2 * rem, d, z + 1)

\* b + 1 on binary digits holding a zero: the last zero becomes 1, the ones
\* after it 0.
Increment(b) ==
    LET j == CHOOSE i \in 1..Len(b) :
                 b[i] = 0 /\ \A k \in (i + 1)..Len(b) : b[k] = 1
    IN  [i \in 1..Len(b) |-> IF i < j THEN b[i] ELSE IF i = j THEN 1 ELSE 0]

\* Round to nearest, ties to even: digits (first one 1) of any length, with
\* `sticky' telling that non-zero digits follow them.
RoundNearestEven(digits, sticky, pt) ==
    LET n == Len(digits)
        m == IF n >= Mantissa THEN SubSeq(digits, 1, Mantissa)
             ELSE digits \o [i \in 1..(Mantissa - n) |-> 0]
        guard == IF n > Mantissa THEN digits[Mantissa + 1] ELSE 0
        rest == sticky \/ \E i \in (Mantissa + 2)..n : digits[i] = 1
        up == guard = 1 /\ (rest \/ m[Mantissa] = 1)
    IN  IF ~up THEN [bits |-> m, pt |-> pt]
        ELSE IF \A i \in 1..Mantissa : m[i] = 1
             THEN [bits |-> <<1>> \o [i \in 1..(Mantissa - 1) |-> 0], pt |-> pt + 1]
             ELSE [bits |-> Increment(m), pt |-> pt]

FloatZero == [bits |-> <<>>, pt |-> 0]

\* float(n) / float(d) for naturals n and d > 0, correctly rounded.
FloatDiv(n, d) ==
    IF n = 0 THEN FloatZero
    ELSE IF n \div d > 0
    THEN LET ib == ToBits(n \div d)
             f == FracBits(n % d, d, Mantissa + 1 - Len(ib), ib)
         IN  RoundNearestEven(f.bits, f.rem # 0, Len(ib))
    ELSE LET z == LeadingZeros(n % d, d, 0)
             f == FracBits(z.rem, d, Mantissa + 1, <<>>)
         IN  RoundNearestEven(f.bits, f.rem # 0, -z.z)

\* One digit of digits * k, from the right: position i, with the carry.
MulStep(m) ==
    LET v == m.digits[m.i] * m.k + m.carry
    IN  [m EXCEPT !.i = m.i - 1, !.carry = v \div 2, !.acc = <<v % 2>> \o m.acc]

\* digits * k for a natural k > 0.
MulDigits(digits, k) ==
    LET m == Iterate(MulStep, [digits |-> digits, k |-> k, i |-> Len(digits),
                               carry |-> 0, acc |-> <<>>], Len(digits))
    IN  ToBits(m.carry) \o m.acc

\* x * float(k) for a natural k, correctly rounded.
FloatMul(x, k) ==
    IF x.bits = <<>> \/ k = 0 THEN FloatZero
    ELSE LET p == MulDigits(x.bits, k)
         IN  RoundNearestEven(p, FALSE, x.pt + Len(p) - Mantissa)

\* math.floor(x) for a double x >= 0 below 2^31.
Floor(x) ==
    IF x.pt <= 0 THEN 0 ELSE FromBits(SubSeq(x.bits, 1, Min(x.pt, Len(x.bits))))

\* noisiness = math.floor(len(self.calls) / 100 * self.noise); a percentage
\* below 1 leaves range(noisiness) empty.
noisiness(len, noise) ==
    IF noise <= 0 THEN 0 ELSE Floor(FloatMul(FloatDiv(len, 100), noise))

(***************************************************************************)
(* The random module: randint and sample draw from the generator's state.  *)
(***************************************************************************)
Modulus == 65537
Multiplier == 75

NextSeed(s) == (s * Multiplier + Multiplier - 1) % Modulus

\* random.randint(a, b): an integer of a..b, and the state after the draw.
randint(s, a, b) ==
    [value |-> a + (NextSeed(s) % (b - a + 1)), seed |-> NextSeed(s)]

\* random.sample(population, k) on a population of n: the positions of the
\* k elements picked, in the order picked, and the state afterwards.  The
\* population itself is left as it is.
SampleStep(st) ==
    LET r == randint(st.seed, 1, Len(st.left))
    IN  [seed |-> r.seed,
         left |-> SubSeq(st.left, 1, r.value - 1)
                  \o SubSeq(st.left, r.value + 1, Len(st.left)),
         list |-> Append(st.list, st.left[r.value])]

sample(s, population, k) ==
    Iterate(SampleStep, [seed |-> s, left |-> population, list |-> <<>>], k)

Positions(n) == [i \in 1..n |-> i]

(***************************************************************************)
(* encode.py: function and Encoder.generate.  A C function is              *)
(* [signature, calls, asm]: the calls of its body in order, or the         *)
(* instruction of a leaf.                                                  *)
(***************************************************************************)
\* Faulty variant: the decoy's level is drawn from 1..11.
function_decoy_to_11(op, times, s) ==
    IF times > 1
    THEN LET noise == randint(s, 1, 11)
         IN  [text |-> [signature |-> call(op, times),
                        calls |-> IF op # "NOP"
                                  THEN <<call(op, split(times)[1]), call(op, split(times)[2]),
                                         call("NOP", noise.value)>>
                                  ELSE <<call(op, split(times)[1]), call(op, split(times)[2])>>,
                        asm |-> ""],
              seed |-> IF op # "NOP" THEN noise.seed ELSE s]
    ELSE [text |-> [signature |-> call(op, times), calls |-> <<>>, asm |-> op],
          seed |-> s]

\* Faulty variant: the decoy is a call of the routine's own kind.
function_decoy_of_kind(op, times, s) ==
    IF times > 1
    THEN LET noise == randint(s, 1, 10)
         IN  [text |-> [signature |-> call(op, times),
                        calls |-> <<call(op, split(times)[1]), call(op, split(times)[2]),
                                    call(op, 1)>>,
                        asm |-> ""],
              seed |-> noise.seed]
    ELSE [text |-> [signature |-> call(op, times), calls |-> <<>>, asm |-> op],
          seed |-> s]

function(op, times, s) ==
    IF times > 1
    THEN LET a == split(times)[1]
             b == split(times)[2]
             noise == randint(s, 1, 10)
             calls == IF op # "NOP"
                      THEN <<call(op, a), call(op, b), call("NOP", noise.value)>>
                      ELSE <<call(op, a), call(op, b)>>
             s1 == IF op # "NOP" THEN noise.seed ELSE s
             \* random.sample(calls, len(calls)): the result is dropped
             shuffled == sample(s1, Positions(Len(calls)), Len(calls))
         IN  [text |-> [signature |-> call(op, times), calls |-> calls, asm |-> ""],
              seed |-> shuffled.seed]
    ELSE [text |-> [signature |-> call(op, times), calls |-> <<>>, asm |-> op],
          seed |-> s]

\* signatures.add(...); funcs.add(function(op, level))
AddFunction(st, level) ==
    LET f == function(st.op, level, st.seed)
    IN  [st EXCEPT !.funcs = st.funcs \cup {f.text}, !.seed = f.seed]

\* for level in levels: ..., continuing from st = [funcs, seed]
Functions(op, levels, st) ==
    LET done == Fold(AddFunction, [op |-> op, funcs |-> st.funcs, seed |-> st.seed],
                     Sorted(levels), 1, Cardinality(levels))
    IN  [funcs |-> done.funcs, seed |-> done.seed]

\* Faulty variant: the token at the index is overwritten.
Insert_overwriting(calls, index, x) ==
    SubSeq(calls, 1, index) \o <<x>> \o SubSeq(calls, index + 2, Len(calls))

\* self.calls.insert(index, x)
Insert(calls, index, x) ==
    SubSeq(calls, 1, index) \o <<x>> \o SubSeq(calls, index + 1, Len(calls))

\* times = random.randint(1, len(self.nops))
\* index = random.randint(0, len(self.calls))
\* self.calls.insert(index, call('NOP', times))
NoiseStep(st) ==
    LET times == randint(st.seed, 1, Cardinality(st.nops))
        index == randint(times.seed, 0, Len(st.calls))
    IN  [st EXCEPT !.calls = Insert(st.calls, index.value, call("NOP", times.value)),
                   !.seed = index.seed]

\* for _ in range(noisiness): ...
InsertNoise(calls, nops, k, s) ==
    Iterate(NoiseStep, [calls |-> calls, nops |-> nops, seed |-> s], k)

MainSignature == <<"main", 0>>

\* The NOP, CLC and STC functions, in the order generate() makes them.
Routines(self, s) ==
    Functions("STC", self.stcs,
        Functions("CLC", self.clcs,
            Functions("NOP", self.nops, [funcs |-> {}, seed |-> s])))

\* random.sample(signatures, len(signatures)), the result dropped, and
\* declarations = '\r\n\r\n'.join(signatures)
Declare(st) ==
    [funcs |-> st.funcs,
     declarations |-> {f.signature : f \in st.funcs},
     seed |-> sample(st.seed, Positions(Cardinality(st.funcs)),
                     Cardinality(st.funcs)).seed]

\* The main function's noise.
MainNoise(self, s) ==
    InsertNoise(self.calls, self.nops, noisiness(Len(self.calls), self.noise), s)

\* funcs.add(main); body = join(funcs); random.sample(funcs, len(funcs)),
\* the result dropped; the C file.
Assemble(self, d, noisy) ==
    [self |-> [self EXCEPT !.calls = noisy.calls],
     seed |-> sample(noisy.seed, Positions(Cardinality(d.funcs) + 1),
                     Cardinality(d.funcs) + 1).seed,
     text |-> [declarations |-> d.declarations,
               body |-> d.funcs \cup {[signature |-> MainSignature,
                                       calls |-> noisy.calls, asm |-> ""]}]]

\* generate(): the C file returned, the Encoder and the generator afterwards.
generate(self, s) ==
    Apply(LAMBDA d : Apply(LAMBDA noisy : Assemble(self, d, noisy),
                           MainNoise(self, d.seed)),
          Declare(Routines(self, s)))

(***************************************************************************)
(* The generated program as a debuggee: the leaf instructions main()       *)
(* executes, in order.  A function with calls runs them in the order of    *)
(* its body, a leaf runs its one instruction.                              *)
(***************************************************************************)
RECURSIVE Run(_, _)
Run(body, signature) ==
    LET f == CHOOSE g \in body : g.signature = signature
    IN  IF f.asm # ""
        THEN <<f.asm>>
        ELSE Fold(LAMBDA acc, c : acc \o Run(body, c), <<>>, f.calls, 1, Len(f.calls))

Compile(text) == Run(text.body, MainSignature)

(***************************************************************************)
(* The debugger session decode.py drives: [bps, trace, cf, status], trace  *)
(* the instructions the debuggee has still to execute.                     *)
(***************************************************************************)
Carry(cf, instruction) ==
    IF instruction = "STC" THEN 1 ELSE IF instruction = "CLC" THEN 0 ELSE cf

\* The carry flag after the instructions trace[1..n].
CarryAfter(cf, trace, n) == Fold(Carry, cf, trace, 1, n)

\* The instructions before the first one that holds a breakpoint.
Skipped(trace, bps) ==
    IF \E i \in 1..Len(trace) : trace[i] \in bps
    THEN (CHOOSE i \in 1..Len(trace) :
              /\ trace[i] \in bps
              /\ \A j \in 1..(i - 1) : trace[j] \notin bps) - 1
    ELSE Len(trace)

\* r2.cmd('dc'): run to the next breakpoint, or to the end of the process.
dc(s) ==
    IF s.status \in {"closed", "exited"}
    THEN s
    ELSE LET n == Skipped(s.trace, s.bps)
         IN  [s EXCEPT !.trace = SubSeq(s.trace, n + 1, Len(s.trace)),
                       !.cf = CarryAfter(s.cf, s.trace, n),
                       !.status = IF n = Len(s.trace) THEN "exited" ELSE "stopped"]

\* r2.cmd('ds'): execute one instruction.
ds(s) ==
    IF s.status \in {"closed", "exited"} \/ s.trace = <<>>
    THEN s
    ELSE [s EXCEPT !.trace = Tail(s.trace),
                   !.cf = Carry(s.cf, Head(s.trace)),
                   !.status = "stepped"]

\* r2.cmd('dij'): the type of the process status.
dij(s) == IF s.status = "exited" THEN "exit-pid" ELSE "breakpoint"

\* r2.cmd('drj'): rflags, the carry flag its bit 0; `flags' the other bits.
drj(s, flags) == [rflags |-> 2 * flags + s.cf]

\* The bits of rflags above the carry flag seen in a register read: the
\* reserved bit alone (0x2), or with PF, ZF and IF as well (0x246).
OtherFlags == {1, 291}

(***************************************************************************)
(* decode.py: the loop body on the local variables                         *)
(* d = [count, byte, chunk, writes].                                       *)
(***************************************************************************)
\* Faulty variant: the type is compared with another word.
completed_misspelt(type) == type = "exit"

\* if 'type' in target and target['type'] == 'exit-pid'
completed(type) == type = "exit-pid"

\* Faulty variant: the flag register is not masked to its bit 0.
add_sample_unmasked(d, rflags) ==
    LET b == 2 * d.byte + (IF rflags # 0 THEN 1 ELSE 0)
    IN  IF d.count + 1 = 8
        THEN [d EXCEPT !.chunk = Append(@, b), !.count = 0, !.byte = 0]
        ELSE [d EXCEPT !.byte = b, !.count = d.count + 1]

\* byte <<= 1; byte |= int((rflags & 1) != 0); count += 1;
\* if count == 8: chunk.append(byte); count = 0; byte = 0
add_sample(d, rflags) ==
    LET b == 2 * d.byte + (IF rflags % 2 # 0 THEN 1 ELSE 0)
    IN  IF d.count + 1 = 8
        THEN [d EXCEPT !.chunk = Append(@, b), !.count = 0, !.byte = 0]
        ELSE [d EXCEPT !.byte = b, !.count = d.count + 1]

\* Faulty variant: the written chunk is kept.
flush_chunk_keeping(d, n) ==
    IF Len(d.chunk) = n THEN [d EXCEPT !.writes = Append(@, d.chunk)] ELSE d

\* if len(chunk) == args.count: output.write(bytes(chunk)); chunk = []
flush_chunk(d, n) ==
    IF Len(d.chunk) = n
    THEN [d EXCEPT !.writes = Append(@, d.chunk), !.chunk = <<>>]
    ELSE d

\* Faulty variant: the pending bits are padded to a whole byte.
flush_exit_padding(d) ==
    LET c == IF d.count > 0
             THEN Append(d.chunk, d.byte * Pow2(8 - d.count))
             ELSE d.chunk
    IN  [d EXCEPT !.chunk = c,
                  !.writes = IF Len(c) > 0 THEN Append(@, c) ELSE @]

\* if count > 0: chunk.append(byte)
\* if len(chunk) > 0: output.write(bytes(chunk))
flush_exit(d) ==
    LET c == IF d.count > 0 THEN Append(d.chunk, d.byte) ELSE d.chunk
    IN  [d EXCEPT !.chunk = c,
                  !.writes = IF Len(c) > 0 THEN Append(@, c) ELSE @]

(***************************************************************************)
(* The encoder's runs: the constructor called directly (New) or through    *)
(* encode.py's __main__ (Main), then flush() and generate() on the object. *)
(***************************************************************************)
DefaultBytes == 1
DefaultNoise == 25
DefaultCount == 128

Inputs == SeqsUpTo(ByteValues, MaxLen)
BytesArgs == {-1} \cup 0..MaxBytes
\* -n/--noise values, in and out of 0 < N < 100
NoiseArgs == {0, DefaultNoise, 50, 100}
\* -c/--count values
CountArgs == {-1, 0, 1, 2, DefaultCount}
\* -c/--count values of the round trip: nothing written before the exit,
\* a write per byte, the default
RoundTripCounts == {0, 1, DefaultCount}
\* the breakpoints: the STC and the CLC leaf instruction
LeafBreakpoints == {"STC", "CLC"}

NoEncoder == [bytes |-> DefaultBytes, noise |-> DefaultNoise, last |-> -1,
              count |-> 0, clcs |-> {}, stcs |-> {}, nops |-> {}, calls |-> <<>>]
NoProgram == [declarations |-> {}, body |-> {}]
NoArgs == [noise |-> DefaultNoise, count |-> DefaultCount, breakpoint |-> {},
           file |-> <<>>]
NoSession == [bps |-> {}, trace |-> <<>>, cf |-> 0, status |-> "closed"]
NoSink == [open |-> FALSE, writes |-> <<>>]

DecoderIdle ==
    /\ r2 = NoSession
    /\ target = "none"
    /\ registers = [rflags |-> 0]
    /\ count = 0
    /\ byte = 0
    /\ chunk = <<>>
    /\ output = NoSink
    /\ log = <<>>

EncoderIdle ==
    /\ hist = <<>>
    /\ e = NoEncoder
    /\ program = NoProgram
    /\ stdout = <<>>

Init ==
    /\ pc = "start"
    /\ input \in [data : Inputs, pos : {0}]
    /\ seed \in 0..MaxSeed
    /\ args = NoArgs
    /\ EncoderIdle
    /\ DecoderIdle

\* e = Encoder(input, bytes, noise), called by a user of the class
New(bytes, noise) ==
    /\ pc = "start"
    /\ \E r \in {Encoder(input, bytes, noise)} :
          /\ e' = r.self
          /\ input' = r.in
    /\ hist' = <<"Encoder">>
    /\ pc' = "encoder"
    /\ UNCHANGED <<args, seed, program, stdout>>
    /\ UNCHANGED decvars

\* e.flush()
Flush ==
    /\ pc = "encoder"
    /\ Len(hist) <= MaxOps
    /\ e' = flush(e)
    /\ hist' = Append(hist, "flush")
    /\ UNCHANGED <<pc, args, input, seed, program, stdout>>
    /\ UNCHANGED decvars

\* e.generate()
Generate ==
    /\ pc = "encoder"
    /\ Len(hist) <= MaxOps
    /\ \E g \in {generate(e, seed)} :
          /\ e' = g.self
          /\ seed' = g.seed
          /\ program' = g.text
    /\ hist' = Append(hist, "generate")
    /\ UNCHANGED <<pc, args, input, stdout>>
    /\ UNCHANGED decvars

\* encode.py __main__ run with -n noise: parse, Encoder(input), generate(),
\* write, close.
Main(noise) ==
    /\ pc = "start"
    /\ args' = [args EXCEPT !.noise = noise]
    /\ \E r \in {Encoder(input, DefaultBytes, DefaultNoise)} :
          /\ input' = r.in
          /\ \E g \in {generate(r.self, seed)} :
                /\ e' = g.self
                /\ seed' = g.seed
                /\ program' = g.text
                /\ stdout' = <<g.text>>
    /\ hist' = <<"Encoder", "generate">>
    /\ pc' = "exit"
    /\ UNCHANGED decvars

Next ==
    \/ \E bytes \in BytesArgs, noise \in NoisePercents : New(bytes, noise)
    \/ \E noise \in NoiseArgs : Main(noise)
    \/ Flush
    \/ Generate

Spec == Init /\ [][Next]_vars

(***************************************************************************)
(* decode.py's __main__, one action per debugger command.                  *)
(***************************************************************************)
Local == [count |-> count, byte |-> byte, chunk |-> chunk, writes |-> output.writes]

Store(d) ==
    /\ count' = d.count
    /\ byte' = d.byte
    /\ chunk' = d.chunk
    /\ output' = [output EXCEPT !.writes = d.writes]

Issue(cmd, reply) == log' = Append(log, <<cmd, reply>>)

\* r2 = r2pipe.open(file); db for every breakpoint; ood; the output opened;
\* count = 0; byte = 0; chunk = [].  The carry flag of the new process is
\* whatever the loader left.
Open(file, bps, n) ==
    /\ args' = [args EXCEPT !.file = file, !.breakpoint = bps, !.count = n]
    /\ \E cf \in {0, 1} :
          r2' = [bps |-> bps, trace |-> file, cf |-> cf, status |-> "loaded"]
    /\ log' = log \o [i \in 1..Cardinality(bps) |-> <<"db", 0>>] \o <<<<"ood", 0>>>>
    /\ output' = [open |-> TRUE, writes |-> <<>>]
    /\ count' = 0
    /\ byte' = 0
    /\ chunk' = <<>>
    /\ pc' = "dc"
    /\ UNCHANGED <<target, registers>>
    /\ UNCHANGED encvars

\* decode.py run on an executable, the breakpoints on its STC and CLC.
DecodeBinary(file, n) ==
    /\ pc = "start"
    /\ Open(file, LeafBreakpoints, n)

\* decode.py run on the compiled program of Encoder(...).generate(), the
\* breakpoints on the STC and CLC leaves.
DecodeProgram(n) ==
    /\ pc = "encoder"
    /\ hist = <<"Encoder", "generate">>
    /\ Open(Compile(program), LeafBreakpoints, n)

\* r2.cmd('dc')
Dc ==
    /\ pc = "dc"
    /\ r2' = dc(r2)
    /\ Issue("dc", 0)
    /\ pc' = "dij"
    /\ UNCHANGED <<args, target, registers, count, byte, chunk, output>>
    /\ UNCHANGED encvars

\* target = json.loads(r2.cmd('dij')), and the test of its type
Dij ==
    /\ pc = "dij"
    /\ target' = dij(r2)
    /\ Issue("dij", IF dij(r2) = "exit-pid" THEN 1 ELSE 0)
    /\ pc' = IF completed(dij(r2)) THEN "completed" ELSE "ds"
    /\ UNCHANGED <<args, r2, registers, count, byte, chunk, output>>
    /\ UNCHANGED encvars

\* the exit branch: flush the incomplete byte and the incomplete chunk, break
FlushExit ==
    /\ pc = "completed"
    /\ Store(flush_exit(Local))
    /\ pc' = "close"
    /\ UNCHANGED <<args, r2, target, registers, log>>
    /\ UNCHANGED encvars

\* r2.cmd('ds')
Ds ==
    /\ pc = "ds"
    /\ r2' = ds(r2)
    /\ Issue("ds", 0)
    /\ pc' = "drj"
    /\ UNCHANGED <<args, target, registers, count, byte, chunk, output>>
    /\ UNCHANGED encvars

\* registers = json.loads(r2.cmd('drj')), and the rest of the loop body.
\* The log keeps the carry flag of the reply.
Sample ==
    /\ pc = "drj"
    /\ \E flags \in OtherFlags :
          /\ registers' = drj(r2, flags)
          /\ Store(flush_chunk(add_sample(Local, drj(r2, flags).rflags), args.count))
    /\ Issue("drj", r2.cf)
    /\ pc' = "dc"
    /\ UNCHANGED <<args, r2, target>>
    /\ UNCHANGED encvars

\* output.close()
Close ==
    /\ pc = "close"
    /\ output' = [output EXCEPT !.open = FALSE]
    /\ pc' = "done"
    /\ UNCHANGED <<args, r2, target, registers, count, byte, chunk, log>>
    /\ UNCHANGED encvars

Loop ==
    \/ Dc
    \/ Dij
    \/ FlushExit
    \/ Ds
    \/ Sample
    \/ Close

\* STC for a 1, CLC for a 0.
Instructions(bits) == [i \in 1..Len(bits) |-> IF bits[i] = 1 THEN "STC" ELSE "CLC"]

\* The executables decode.py is run on by itself: every start of the
\* instructions spelling MaxLen bytes.
Binaries ==
    {SubSeq(Instructions(ChunkBits(B)), 1, k) :
        B \in {I \in Inputs : Len(I) = MaxLen}, k \in 0..(8 * MaxLen)}

InitDec ==
    /\ pc = "start"
    /\ input = [data |-> <<>>, pos |-> 0]
    /\ seed = 0
    /\ args = NoArgs
    /\ EncoderIdle
    /\ DecoderIdle

NextDec ==
    \/ \E file \in Binaries, n \in CountArgs : DecodeBinary(file, n)
    \/ Loop

\* decode.py on its own
SpecDec == InitDec /\ [][NextDec]_vars

NextRT ==
    \/ \E bytes \in BytesArgs, noise \in NoisePercents : New(bytes, noise)
    \/ Generate
    \/ \E n \in RoundTripCounts : DecodeProgram(n)
    \/ Loop

\* The round trip: Encoder(input, bytes, noise).generate(), the program
\* compiled and run under decode.py.
SpecRT == Init /\ [][NextRT]_vars

\* Long input streams: 0x55 bytes, eight runs each, then nothing or 0x0F,
\* two runs more.
LongInputs ==
    {[i \in 1..k |-> 85] \o tail : k \in 0..MaxAlternating, tail \in {<<>>, <<15>>}}

InitNoise ==
    /\ pc = "start"
    /\ input \in [data : LongInputs, pos : {0}]
    /\ seed \in 0..MaxSeed
    /\ args = NoArgs
    /\ EncoderIdle
    /\ DecoderIdle

NextNoise ==
    \/ \E noise \in NoisePercents : New(DefaultBytes, noise)
    \/ Generate

\* Encoder(...).generate() on long inputs
SpecNoise == InitNoise /\ [][NextNoise]_vars

(***************************************************************************)
(* The ways the decode loop ends other than by the exit branch: an         *)
(* exception leaves __main__ where it is raised, nothing catches it.       *)
(***************************************************************************)
\* json.loads(r2.cmd('dij')) raises: the reply is no JSON
DijFails ==
    /\ pc = "dij"
    /\ Issue("dij", -1)
    /\ pc' = "aborted"
    /\ UNCHANGED <<args, r2, target, registers, count, byte, chunk, output>>
    /\ UNCHANGED encvars

\* json.loads(r2.cmd('drj')) or registers['rflags'] raises
DrjFails ==
    /\ pc = "drj"
    /\ Issue("drj", -1)
    /\ pc' = "aborted"
    /\ UNCHANGED <<args, r2, target, registers, count, byte, chunk, output>>
    /\ UNCHANGED encvars

\* KeyboardInterrupt anywhere in the loop
Interrupt ==
    /\ pc \in {"dc", "dij", "ds", "drj", "completed"}
    /\ pc' = "aborted"
    /\ UNCHANGED <<args, r2, target, registers, count, byte, chunk, output, log>>
    /\ UNCHANGED encvars

NextErr ==
    \/ \E file \in Binaries, n \in CountArgs : DecodeBinary(file, n)
    \/ Loop
    \/ DijFails
    \/ DrjFails
    \/ Interrupt

\* decode.py on its own, failures and interrupts included
SpecErr == InitDec /\ [][NextErr]_vars

(***************************************************************************)
(* complete() on its own: called on a level set, in place, time and again. *)
(***************************************************************************)
LevelSets == SUBSET (1..MaxLevel)

InitComplete ==
    /\ pc = "levels"
    /\ input = [data |-> <<>>, pos |-> 0]
    /\ seed = 0
    /\ args = NoArgs
    /\ hist = <<>>
    /\ e \in {[NoEncoder EXCEPT !.clcs = s] : s \in LevelSets}
    /\ program = NoProgram
    /\ stdout = <<>>
    /\ DecoderIdle

\* complete(self.clcs)
Complete ==
    /\ pc = "levels"
    /\ Len(hist) < MaxOps
    /\ e' = [e EXCEPT !.clcs = complete(e.clcs)]
    /\ hist' = Append(hist, "complete")
    /\ UNCHANGED <<pc, args, input, seed, program, stdout>>
    /\ UNCHANGED decvars

NextComplete == Complete

SpecComplete == InitComplete /\ [][NextComplete]_vars

(***************************************************************************)
(* What the claims speak of.                                               *)
(***************************************************************************)
\* The Encoder has just been constructed: nothing was called on it yet.
Constructed == hist = <<"Encoder">>
Generated == \E i \in 1..Len(hist) : hist[i] = "generate"

\* The input's bitstream, each byte most significant bit first.
InputBits == ChunkBits(input.data)

\* The bits a call token stands for: `level' ones for STC, zeros for CLC.
Copies(c) ==
    IF c[1] = "STC" THEN [i \in 1..c[2] |-> 1]
    ELSE IF c[1] = "CLC" THEN [i \in 1..c[2] |-> 0]
    ELSE <<>>

AppendCopies(acc, c) == acc \o Copies(c)

\* The bits a call sequence stands for, token by token.
Unroll(calls) == Fold(AppendCopies, <<>>, calls, 1, Len(calls))

Closed(S) == \A n \in S : n > 1 => (n \div 2) \in S /\ ((n + 1) \div 2) \in S

Level(f) == f.signature[2]
Kind(f) == f.signature[1]
Routine(op, times) == {f \in program.body : f.signature = call(op, times)}
MainCalls == UNION {{f.calls} : f \in {g \in program.body : g.signature = MainSignature}}

\* C2: once the Encoder is constructed (read chunk size other than 0, see
\* C9), writing `level' ones for each STC token and `level' zeros for each
\* CLC token of the call sequence, in order, gives the input's bitstream,
\* most significant bit first, the last run included.
C2_RunLength ==
    (Constructed /\ e.bytes # 0) => Unroll(e.calls) = InputBits

\* A two-byte input read byte by byte, with a run longer than a byte and a
\* last run that only flush() emits.
C2_Witness ==
    /\ Constructed
    /\ e.bytes = 1
    /\ Len(input.data) = 2
    /\ Len(e.calls) = 2
    /\ e.calls[1][2] > 8
    /\ Unroll(e.calls) = InputBits

\* C3: after construction each of the three level sets holds, with every
\* level n > 1, floor(n/2) and ceil(n/2); and every routine of a generated
\* program with a level above 1 has both half-level routines in the program.
C3_Closure ==
    /\ hist # <<>> => Closed(e.clcs) /\ Closed(e.stcs) /\ Closed(e.nops)
    /\ \A f \in program.body :
          (f.signature # MainSignature /\ Level(f) > 1) =>
              /\ Routine(Kind(f), Level(f) \div 2) # {}
              /\ Routine(Kind(f), (Level(f) + 1) \div 2) # {}

\* A generated program with a payload routine whose halves differ.
C3_Witness ==
    /\ Generated
    /\ \E n \in e.clcs \cup e.stcs : n > 2 /\ n % 2 = 1
    /\ \E f \in program.body : Kind(f) = "STC" /\ Level(f) > 2

\* C8: on an empty byte stream the Encoder has an empty call sequence and
\* empty CLC and STC level sets, and every generate() leaves the entry
\* routine without a single call, whatever the noise percentage.
C8_EmptyInput ==
    (hist # <<>> /\ input.data = <<>>) =>
        /\ e.calls = <<>>
        /\ e.clcs = {}
        /\ e.stcs = {}
        /\ Generated => MainCalls = {<<>>}

C8_Witness ==
    /\ input.data = <<>>
    /\ Generated
    /\ e.noise = 99
    /\ MainCalls = {<<>>}

\* What the constructor builds from the same input with the default read
\* chunk size.
DefaultEncoder ==
    Encoder([input EXCEPT !.pos = 0], DefaultBytes, e.noise).self

SameAsDefault ==
    /\ e.calls = DefaultEncoder.calls
    /\ e.clcs = DefaultEncoder.clcs
    /\ e.stcs = DefaultEncoder.stcs
    /\ e.nops = DefaultEncoder.nops

\* C9 as claimed: whatever the read chunk size, the Encoder builds the call
\* sequence and the level sets it builds with the default chunk size of 1.
C9_AnyChunkSize == Constructed => SameAsDefault

\* C9, amended: for every read chunk size other than 0 (a positive size,
\* or -1, which reads the stream at once) the Encoder builds the call
\* sequence and the level sets it builds with the default size of 1.
C9_NonZeroChunkSize == (Constructed /\ e.bytes # 0) => SameAsDefault

\* Two bytes read in one chunk, one run crossing the byte boundary.
C9_Witness ==
    /\ Constructed
    /\ e.bytes = 2
    /\ Len(input.data) = 2
    /\ \E i \in 1..Len(e.calls) : e.calls[i][2] > 8

\* C10: a run of encode.py whose -n value is not strictly between 0 and 100
\* writes no program text.
C10_InvalidNoiseRejected ==
    (pc = "exit" /\ ~(0 < args.noise /\ args.noise < 100)) => stdout = <<>>

\* The tokens of a call sequence that are (not) NOP calls.
NoiseTokens(calls) == {i \in 1..Len(calls) : calls[i][1] = "NOP"}
PayloadTokens(calls) == {i \in 1..Len(calls) : calls[i][1] # "NOP"}

\* C4: the first generate() on an Encoder whose call sequence holds L
\* payload tokens leaves exactly floor(L * n / 100) NOP tokens in the main
\* call sequence, n the noise percentage.
C4_NoiseCount ==
    hist = <<"Encoder", "generate">> =>
        \A calls \in MainCalls :
            Cardinality(NoiseTokens(calls))
                = (Cardinality(PayloadTokens(calls)) * e.noise) \div 100

\* The bytes written to the output sink, write after write.
AppendWrite(acc, w) == acc \o w
Written == Fold(AppendWrite, <<>>, output.writes, 1, Len(output.writes))

\* The carry flags the decoder sampled, in order.
IsSample(entry) == entry[1] = "drj"
Samples == SelectSeq(log, IsSample)
Sampled == [k \in 1..Len(Samples) |-> Samples[k][2]]

\* bits read as an unsigned binary number, the first the most significant
Unsigned(bits) == FromBits(bits)

Pending == Len(Sampled) % 8
PendingBits == SubSeq(Sampled, Len(Sampled) - Pending + 1, Len(Sampled))

\* C1 as claimed: for every read chunk size, output chunk size and noise
\* percentage the decoder, run on the program of Encoder(B).generate() with
\* breakpoints on the STC and CLC leaves, writes exactly the bytes of B.
C1_RoundTripAnyChunkSize == pc = "done" => Written = input.data

\* C1, amended: the same for every read chunk size other than 0.
C1_RoundTrip == (pc = "done" /\ e.bytes # 0) => Written = input.data

\* Two bytes, read in one chunk, decoded through noise into two writes.
C1_Witness ==
    /\ pc = "done"
    /\ e.bytes = 2
    /\ e.noise = 50
    /\ args.count = 1
    /\ Len(input.data) = 2
    /\ Cardinality(NoiseTokens(e.calls)) > 0
    /\ Len(output.writes) = 2
    /\ Written = input.data

\* C5: when the debuggee exits with k sampled bits pending, 1 <= k <= 7,
\* the decoder writes one byte after the whole ones, the pending bits as an
\* unsigned number, first bit most significant, unpadded; with no bit
\* pending it writes the whole bytes only.
C5_PartialByte ==
    pc \in {"close", "done"} =>
        /\ Len(Written) = Len(Sampled) \div 8 + (IF Pending > 0 THEN 1 ELSE 0)
        /\ Pending > 0 => Written[Len(Written)] = Unsigned(PendingBits)

\* The bits 1, 0, 1 decoded to the byte 5.
C5_Witness ==
    /\ pc = "done"
    /\ Sampled = <<1, 0, 1>>
    /\ Written = <<5>>

\* C6: every continue command but the last issued is followed at once by
\* a status read, the last is the newest command; and a status read that
\* reported the exit is the last command issued.
C6_ExitDetection ==
    \A i \in 1..Len(log) :
        /\ (log[i][1] = "dc" /\ i < Len(log)) => log[i + 1][1] = "dij"
        /\ (log[i][1] = "dc" /\ i = Len(log)) => pc = "dij"
        /\ log[i] = <<"dij", 1>> => i = Len(log)

\* The decoder has finished after an exit that followed some samples.
C6_Witness ==
    /\ pc = "done"
    /\ Len(Sampled) > 8
    /\ log[Len(log)] = <<"dij", 1>>

\* The decoder's loop on a sequence of sampled bits, chunk size n.
SampleBit(d, bit) == flush_chunk(add_sample(d, bit), d.n)
DecodeBits(bits, n) ==
    flush_exit(Fold(SampleBit, [count |-> 0, byte |-> 0, chunk |-> <<>>,
                                writes |-> <<>>, n |-> n], bits, 1, Len(bits)))
WrittenWith(bits, n) ==
    Fold(AppendWrite, <<>>, DecodeBits(bits, n).writes, 1,
         Len(DecodeBits(bits, n).writes))

\* C7: when the decoder is done, the bytes it wrote, write after write,
\* are the bytes it writes for the same sampled bits with the default
\* chunk size, whatever chunk size it was run with.
C7_ChunkSize ==
    pc = "done" => Written = WrittenWith(Sampled, DefaultCount)

\* A whole byte and a partial one, written one byte a time.
C7_Witness ==
    /\ pc = "done"
    /\ args.count = 1
    /\ Len(Sampled) > 8
    /\ Pending > 0
    /\ Len(output.writes) = 2

\* C11: however the decode loop ends, by the exit of the process, a failed
\* status or register read or an interrupt, the output sink the decoder
\* opened is closed when the run is over.
C11_SinkClosed == pc \in {"done", "aborted"} => ~output.open

\* The STC and CLC tokens of a call sequence, in order.
IsPayload(c) == c[1] # "NOP"
Payload(calls) == SelectSeq(calls, IsPayload)

\* The call sequence the constructor built from the input.
BuiltCalls == Encoder([input EXCEPT !.pos = 0], e.bytes, e.noise).self.calls

\* C12: after generate() the entry routine's calls without the NOP tokens
\* are the call sequence built from the input, the same tokens in the same
\* order.
C12_PayloadOrder ==
    Generated => \A calls \in MainCalls : Payload(calls) = BuiltCalls

\* Noise tokens fell before and between payload tokens.
C12_Witness ==
    /\ Generated
    /\ \E calls \in MainCalls :
          /\ Len(Payload(calls)) > 2
          /\ \E i \in NoiseTokens(calls) :
                \E j \in PayloadTokens(calls), k \in PayloadTokens(calls) : j < i /\ i < k
          /\ Payload(calls) = BuiltCalls

\* C13: after a run of encode.py the entry routine holds the number of
\* NOP tokens generate() computes from the -n/--noise value of the run.
C13_CliNoise ==
    pc = "exit" =>
        \A calls \in MainCalls :
            Cardinality(NoiseTokens(calls))
                = noisiness(Cardinality(PayloadTokens(calls)), args.noise)

\* The number of instructions of the given kind in a run.
Count(run, kind) == Cardinality({i \in 1..Len(run) : run[i] = kind})

\* What a routine of the generated program executes.
RunOf(f) == Run(program.body, f.signature)

LeafCount(f, run) ==
    /\ Kind(f) = "STC" => Count(run, "STC") = Level(f) /\ Count(run, "CLC") = 0
    /\ Kind(f) = "CLC" => Count(run, "CLC") = Level(f) /\ Count(run, "STC") = 0
    /\ Kind(f) = "NOP" => Count(run, "STC") = 0 /\ Count(run, "CLC") = 0

\* C14: in a generated program, executing an STC or CLC routine of level n
\* executes n leaves of its kind and none of the other payload kind, the
\* decoys in the bodies notwithstanding; a NOP routine executes no STC and
\* no CLC leaf.
C14_LeafCount ==
    \A f \in program.body : \A run \in {RunOf(f)} : LeafCount(f, run)

\* A routine of odd level above 4 whose run passes through decoys.
C14_Witness ==
    \E f \in program.body :
        /\ Kind(f) = "STC"
        /\ Level(f) > 4
        /\ Level(f) % 2 = 1
        /\ Count(RunOf(f), "STC") = Level(f)
        /\ Count(RunOf(f), "NOP") > 0

\* C15: the STC and CLC tokens of the Encoder's call sequence have a level
\* of 1 or more and alternate in kind, after construction and after any
\* flush() that follows.
C15_MaximalRuns ==
    LET calls == Payload(e.calls)
    IN  \A i \in 1..Len(calls) :
            /\ calls[i][2] >= 1
            /\ i < Len(calls) => calls[i][1] # calls[i + 1][1]

\* flush() called twice on an Encoder whose input had a run across the
\* boundary of two bytes read one by one.
C15_Witness ==
    /\ hist = <<"Encoder", "flush", "flush">>
    /\ e.bytes = 1
    /\ Len(e.calls) > 2
    /\ \E i \in 1..Len(e.calls) : e.calls[i][2] > 8

\* C16: complete() on a set of positive levels ends, keeps every level the
\* set held, and called again on its result leaves the set as it is.
C16_Idempotent ==
    [][/\ e.clcs \subseteq e'.clcs
       /\ hist # <<>> => e'.clcs = e.clcs]_vars

\* complete() applied twice, the first time on a set that was not closed.
C16_Witness ==
    /\ hist = <<"complete", "complete">>
    /\ e.clcs = {1, 2, 3, 4, 7}

\* A call names one routine of the program and one declaration.
Resolves(c) ==
    /\ Cardinality(Routine(c[1], c[2])) = 1
    /\ c \in program.declarations

\* C17: every call in a body of a generated program, the entry routine's,
\* the decoys and the injected NOP tokens included, names a kind and level
\* with exactly one routine and one declaration in the program.
C17_CallsResolve ==
    \A f \in program.body : \A i \in 1..Len(f.calls) : Resolves(f.calls[i])

\* A program with decoys in its routines and NOP tokens in its entry
\* routine.
C17_Witness ==
    /\ Generated
    /\ \E f \in program.body : Kind(f) = "CLC" /\ Len(f.calls) = 3
    /\ \E calls \in MainCalls : NoiseTokens(calls) # {}
    /\ \A f \in program.body : \A i \in 1..Len(f.calls) : Resolves(f.calls[i])

\* C18: once generate() has returned a program, no generate() or flush()
\* on the Encoder changes its call sequence or its level sets.
C18_NoMutation ==
    [][Generated =>
          /\ e'.calls = e.calls
          /\ e'.clcs = e.clcs
          /\ e'.stcs = e.stcs
          /\ e'.nops = e.nops]_vars

\* The continues that ended in a stop.
Stops == {i \in 1..Len(log) : log[i] = <<"dij", 0>>}

\* The command after the i-th, or the one the decoder is about to issue.
Following(i) == IF i < Len(log) THEN log[i + 1][1] ELSE pc

\* The bytes completed so far, written or pending, and the newest bit.
Completed == Written \o chunk
NewestBit == IF count > 0 THEN byte % 2 ELSE Completed[Len(Completed)] % 2

\* C19: a stop is followed by one single-step, that by one register read,
\* that by the next continue, and the read appends bit 0 of the flag
\* register to the in-progress byte; the bits accumulated when the exit is
\* seen are as many as the stops; the breakpoints are set once, one command
\* each, before anything else.
C19_OneSample ==
    /\ \A i \in 1..Len(log) :
          /\ log[i] = <<"dij", 0>> => Following(i) = "ds"
          /\ log[i][1] = "ds" => Following(i) = "drj"
          /\ log[i][1] = "drj" => Following(i) = "dc"
          /\ log[i][1] = "db" => i <= Cardinality(args.breakpoint)
          /\ (i <= Cardinality(args.breakpoint)) => log[i][1] = "db"
    /\ pc \in {"dc", "completed"} =>
          count + 8 * Len(Completed) = Cardinality(Stops)
    /\ (pc = "dc" /\ Stops # {}) => NewestBit = registers.rflags % 2

\* The exit seen after eleven stops, a byte and three bits accumulated.
C19_Witness ==
    /\ pc = "completed"
    /\ Cardinality(Stops) = 11
    /\ Len(Completed) = 1
    /\ count = 3

\* The states of the random module a routine's body is drawn with.
DrawSeeds == 0..63

\* The bodies of routine (op, n) over those states.
Bodies(op, n) == {function(op, n, s).text.calls : s \in DrawSeeds}

Calls(body) == {body[i] : i \in 1..Len(body)}

\* C20: for an STC or CLC routine of level above 1 there are random
\* choices that emit the same calls, both halves and the decoy, in
\* different orders.
C20_OrderVaries ==
    Constructed =>
        \A n \in e.stcs :
            n > 1 => \E b1 \in Bodies("STC", n), b2 \in Bodies("STC", n) :
                        Calls(b1) = Calls(b2) /\ b1 # b2

====
